---------------------------- MODULE Spec2Model ----------------------------
(***************************************************************************)
(* A model of src/index.ts (tiny-bloomfilter): the BloomFilter class, its  *)
(* double-hashing index generator itemHash and its byte serialization.     *)
(*                                                                         *)
(* A BigInt of the source is modelled as the set of the positions of its   *)
(* 1 bits (bit 0 is the least significant), so that 64-bit and wider       *)
(* values are exact.  A hex string is a sequence of digits 0..15, most     *)
(* significant first, and a Buffer is a sequence of bytes 0..255.          *)
(***************************************************************************)
EXTENDS Integers, Sequences, FiniteSets

VARIABLES
    flt,      \* filter name -> [bits, k, filter]: the BloomFilter instances
    added,    \* history: filter name -> the items passed to its add()
    members,  \* history: filter name -> the items added, directly or by a union
    ret,      \* the last call and what it returned or threw
    hs,       \* the locals of one itemHash call in progress
    sf,       \* the filter being serialized
    wire,     \* the buffer last produced by toBuffer or handed to fromBuffer
    back      \* the filter last produced by fromBuffer

vars == <<flt, added, members, ret, hs, sf, wire, back>>

---------------------------------------------------------------------------
(* Bounds of the model.                                                    *)

\* Number of distinct items the callers pass to add/test.
NumItems == 3
\* Largest hash count k of a filter whose add/test loop is run.
MaxK == 2
\* Largest k of a traced itemHash call.
MaxHashK == 3

---------------------------------------------------------------------------
(* BigInt arithmetic on sets of bit positions.                             *)

Max(S) == CHOOSE x \in S : \A y \in S : y <= x

Bit(b, i) == IF i \in b THEN 1 ELSE 0

\* BigInt(n) for a number n < 2^31.
BigInt(n) == {i \in 0..30 : (n \div (2^i)) % 2 = 1}

\* Number(b) for a BigInt below 2^31.
RECURSIVE Number(_)
Number(b) == IF b = {} THEN 0 ELSE LET i == Max(b) IN 2^i + Number(b \ {i})

\* The set S, enumerated.
Bits(S) == {i : i \in S}

BigOr(x, y) == Bits(x \cup y)
BigAnd(x, y) == Bits(x \cap y)
BigXor(x, y) == Bits((x \ y) \cup (y \ x))
Shl(x, n) == {i + n : i \in x}
Shr(x, n) == {i - n : i \in {j \in x : j >= n}}

\* x + y: the sum without carries plus the carries, until no carry is left.
RECURSIVE BigAdd(_, _)
BigAdd(x, y) ==
    IF y = {} THEN x ELSE BigAdd(BigXor(x, y), Shl(BigAnd(x, y), 1))

\* Hex digit j of x (digit 0 is the least significant).
HexDigit(x, j) == Bit(x, 4*j) + 2 * Bit(x, 4*j + 1) + 4 * Bit(x, 4*j + 2) + 8 * Bit(x, 4*j + 3)

\* The hex digits j..top of x, as a number modulo m.
RECURSIVE ModHigh(_, _, _, _)
ModHigh(x, m, j, top) ==
    IF j > top THEN 0
    ELSE (16 * ModHigh(x, m, j + 1, top) + HexDigit(x, j)) % m

\* x % m for a number m >= 1; the result is below m and is kept as a number.
BigMod(x, m) == IF x = {} THEN 0 ELSE ModHigh(x, m, 0, Max(x) \div 4)

\* BigInt(`0x${hex}`)
FromHex(hex) ==
    {i \in 0..(4 * Len(hex) - 1) :
        (hex[Len(hex) - (i \div 4)] \div (2^(i % 4))) % 2 = 1}

\* num.toString(16): no leading zeros, "0" for zero.
ToString16(x) ==
    LET n == (Max(x \cup {0}) \div 4) + 1
    IN  [p \in 1..n |-> HexDigit(x, n - p)]

---------------------------------------------------------------------------
(* The hash collaborator and itemHash.                                     *)

\* XXH64(buf, 0n) on the items of the model: sample 64-bit values.  Items 1
\* and 2 share their low three bits after the xor of itemHash.
HashTable ==
    <<  [neg |-> FALSE, mag |-> FromHex(<<13,5,10,1,15,3,12,2,11,4,14,6,9,7,8,8>>)],
        [neg |-> FALSE, mag |-> FromHex(<<9,5,3,1,9,8,5,13,5,13,9,13,12,9,15,8>>)],
        [neg |-> TRUE,  mag |-> FromHex(<<2,5,4,5,15,4,9,1,4,15,6,12,13,13,1,13>>)],
        [neg |-> FALSE, mag |-> FromHex(<<3,12,6,14,15,3,7,2,15,14,9,4,15,8,2,11>>)] >>

XXH64(v) == HashTable[v]

mask64 == 0..63

\* A variant of Rotl64 that shifts right by n instead of 64 - n.
Rotl64_same_shift(a, n) == BigOr(Shl(a, n), Shr(a, n))

Rotl64(a, n) == BigOr(Shl(a, n), Shr(a, 64 - n))

\* The fixed constant 0x6740bca37be0516d.
XorConstant == FromHex(<<6,7,4,0,11,12,10,3,7,11,14,0,5,1,6,13>>)

\* The locals of itemHash on entering the loop, for the hash value h.
HashEntry(h, bits, k) ==
    LET a0 == IF h.neg THEN [h EXCEPT !.neg = FALSE] ELSE h
        a1 == BigXor(a0.mag, XorConstant)
    IN  [o |-> {}, m |-> bits, a |-> a1,
         delta |-> BigOr(Rotl64(a1, 17), BigInt(1)), k |-> k, i |-> 0]

\* One iteration of the loop of itemHash.
HashStep(st) ==
    LET delta == BigAdd(st.delta, BigInt(st.i))
        bit   == BigMod(st.a, st.m)
    IN  [st EXCEPT !.delta = delta,
                   !.o = BigOr(st.o, Shl(BigInt(1), bit)),
                   !.a = BigAnd(BigAdd(st.a, delta), mask64),
                   !.i = st.i + 1]

RECURSIVE HashLoop(_)
HashLoop(st) == IF st.i < st.k THEN HashLoop(HashStep(st)) ELSE st

hashOf(h, bits, k) == HashLoop(HashEntry(h, bits, k)).o

\* The items and the widths the filters of the model are constructed with.
Items == 1..NumItems
Widths == {8, 12}
\* The widths of the filters that are serialized.
SerWidths == {8, 12, 16}

\* itemHash is a pure function: its values on the arguments the filters of
\* the model use are tabulated once.
HashMemo ==
    {<<arg, hashOf(XXH64(arg[1]), arg[2], arg[3])>> :
        arg \in Items \X (Widths \cup SerWidths) \X (1..MaxK)}

itemHash(v, bits, k) ==
    IF \E p \in HashMemo : p[1] = <<v, bits, k>>
    THEN (CHOOSE p \in HashMemo : p[1] = <<v, bits, k>>)[2]
    ELSE hashOf(XXH64(v), bits, k)

---------------------------------------------------------------------------
(* Buffer conversions.                                                     *)

\* hex.padStart(n, '0')
PadStart(hex, n) ==
    IF Len(hex) >= n THEN hex ELSE [p \in 1..(n - Len(hex)) |-> 0] \o hex

\* Buffer.from(hex, 'hex') for a hex string of even length.
BufferFromHex(hex) == [j \in 1..(Len(hex) \div 2) |-> 16 * hex[2*j - 1] + hex[2*j]]

\* buffer.toString('hex')
BufferToHex(buf) ==
    [p \in 1..(2 * Len(buf)) |->
        IF p % 2 = 1 THEN buf[(p + 1) \div 2] \div 16 ELSE buf[p \div 2] % 16]

Reverse(buf) == [j \in 1..Len(buf) |-> buf[Len(buf) + 1 - j]]

\* buf.slice(from), buf.slice(from, to): the bytes at offsets from..to-1.
Slice(buf, from, to) ==
    LET lo == IF from > Len(buf) THEN Len(buf) ELSE from
        hi == IF to > Len(buf) THEN Len(buf) ELSE to
    IN  SubSeq(buf, lo + 1, hi)

\* A variant of toBufferLE that does not reverse the bytes.
toBufferLE_big_endian(num, width) ==
    BufferFromHex(SubSeq(PadStart(ToString16(num), width * 2), 1, width * 2))

toBufferLE(num, width) ==
    LET hex == ToString16(num)
        cut == SubSeq(PadStart(hex, width * 2), 1, width * 2)
    IN  Reverse(BufferFromHex(cut))

toBigIntLE(buf) ==
    LET hex == BufferToHex(Reverse(buf))
    IN  IF Len(hex) = 0 THEN BigInt(0) ELSE FromHex(hex)

---------------------------------------------------------------------------
(* enum FilterComparison                                                   *)

Incompatible == -255
None == -1
Equal == 0
Larger == 1
Smaller == 2
Inequal == 3

---------------------------------------------------------------------------
(* class BloomFilter: an instance is [bits, k, filter].                    *)

\* this.popcnt = fastpopcnt(BigInt(bits)): the number of 1 bits of v.
popcnt(v) == Cardinality(v)

BloomFilter(bits, k) == [bits |-> bits, k |-> k, filter |-> BigInt(0)]

\* A variant of add that assigns the hash instead of or-ing it in.
add_assign(this, v) ==
    [this EXCEPT !.filter = itemHash(v, this.bits, this.k)]

\* A variant of add that toggles the bits of the hash.
add_xor(this, v) ==
    [this EXCEPT !.filter = BigXor(this.filter, itemHash(v, this.bits, this.k))]

add(this, v) ==
    [this EXCEPT !.filter = BigOr(this.filter, itemHash(v, this.bits, this.k))]

test(this, v) ==
    LET l == itemHash(v, this.bits, this.k)
    IN  BigAnd(this.filter, l) = l

\* size() is the float -(bits / k) * Math.log(1 - popcnt / bits).  It is kept
\* symbolic, as the three numbers that determine it.
size(this) == [bits |-> this.bits, k |-> this.k, ones |-> popcnt(this.filter)]

\* lsize > rsize for two sizes with the same positive bits and k: Math.log is
\* strictly increasing and is -Infinity at 0, so the size is strictly
\* increasing in the number of 1 bits, up to +Infinity when all are set.
SizeGreater(lsize, rsize) == lsize.ones > rsize.ones

\* A variant of compare that does not look at bits.
compare_k_only(this, bloom) ==
    IF bloom.k # this.k THEN Incompatible
    ELSE IF this.filter = bloom.filter THEN Equal
    ELSE IF SizeGreater(size(this), size(bloom)) THEN Larger
    ELSE IF SizeGreater(size(bloom), size(this)) THEN Smaller
    ELSE Inequal

\* A variant of compare with the two size tests exchanged.
compare_swapped(this, bloom) ==
    IF bloom.k # this.k \/ bloom.bits # this.bits THEN Incompatible
    ELSE IF this.filter = bloom.filter THEN Equal
    ELSE IF SizeGreater(size(bloom), size(this)) THEN Larger
    ELSE IF SizeGreater(size(this), size(bloom)) THEN Smaller
    ELSE Inequal

compare(this, bloom) ==
    IF bloom.k # this.k \/ bloom.bits # this.bits THEN Incompatible
    ELSE IF this.filter = bloom.filter THEN Equal
    ELSE LET lsize == size(this)
             rsize == size(bloom)
         IN  IF SizeGreater(lsize, rsize) THEN Larger
             ELSE IF SizeGreater(rsize, lsize) THEN Smaller
             ELSE Inequal

\* A variant of union that assigns the other filter.
union_assign(this, bloom) ==
    IF bloom.k # this.k \/ bloom.bits # this.bits
    THEN [threw |-> TRUE, this |-> this]
    ELSE [threw |-> FALSE, this |-> [this EXCEPT !.filter = bloom.filter]]

\* A variant of union that and-s the other filter in.
union_and(this, bloom) ==
    IF bloom.k # this.k \/ bloom.bits # this.bits
    THEN [threw |-> TRUE, this |-> this]
    ELSE [threw |-> FALSE,
          this |-> [this EXCEPT !.filter = BigAnd(this.filter, bloom.filter)]]

\* A variant of union that does not look at k.
union_bits_only(this, bloom) ==
    IF bloom.bits # this.bits
    THEN [threw |-> TRUE, this |-> this]
    ELSE [threw |-> FALSE,
          this |-> [this EXCEPT !.filter = BigOr(this.filter, bloom.filter)]]

\* union(bloom): whether it threw, and this afterwards.
union(this, bloom) ==
    IF bloom.k # this.k \/ bloom.bits # this.bits
    THEN [threw |-> TRUE, this |-> this]
    ELSE [threw |-> FALSE,
          this |-> [this EXCEPT !.filter = BigOr(this.filter, bloom.filter)]]

fromBuffer(buf) ==
    LET k == toBigIntLE(Slice(buf, 0, 2))
        ofilter == toBigIntLE(Slice(buf, 2, Len(buf)))
        filter == BloomFilter((Len(buf) - 2) * 8, Number(k))
    IN  [filter EXCEPT !.filter = ofilter]

\* Math.ceil(bits / 8)
Ceil8(bits) == (bits + 7) \div 8

toBuffer(this) ==
    toBufferLE(BigInt(this.k), 2) \o toBufferLE(this.filter, Ceil8(this.bits))

---------------------------------------------------------------------------
(* The filters in use: two instances and the calls made on them.           *)

Filters == {"A", "B"}
Idle == [op |-> "none"]

Init ==
    /\ flt \in [Filters -> {BloomFilter(b, k) : b \in Widths, k \in 1..MaxK}]
    /\ added = [f \in Filters |-> {}]
    /\ members = [f \in Filters |-> {}]
    /\ ret = [op |-> "new"]
    /\ hs = Idle /\ sf = Idle /\ wire = Idle /\ back = Idle

Add(f, v) ==
    /\ flt' = [flt EXCEPT ![f] = add(flt[f], v)]
    /\ added' = [added EXCEPT ![f] = @ \cup {v}]
    /\ members' = [members EXCEPT ![f] = @ \cup {v}]
    /\ ret' = [op |-> "add", this |-> f, arg |-> v]
    /\ UNCHANGED <<hs, sf, wire, back>>

Test(f, v) ==
    /\ ret' = [op |-> "test", this |-> f, arg |-> v, value |-> test(flt[f], v)]
    /\ UNCHANGED <<flt, added, members, hs, sf, wire, back>>

Compare(f, g) ==
    /\ ret' = [op |-> "compare", this |-> f, arg |-> g,
               value |-> compare(flt[f], flt[g])]
    /\ UNCHANGED <<flt, added, members, hs, sf, wire, back>>

Union(f, g) ==
    LET r == union(flt[f], flt[g])
    IN  /\ flt' = [flt EXCEPT ![f] = r.this]
        /\ members' = IF r.threw THEN members
                      ELSE [members EXCEPT ![f] = @ \cup members[g]]
        /\ ret' = [op |-> "union", this |-> f, arg |-> g, threw |-> r.threw]
        /\ UNCHANGED <<added, hs, sf, wire, back>>

Size(f) ==
    /\ ret' = [op |-> "size", this |-> f, value |-> size(flt[f])]
    /\ UNCHANGED <<flt, added, members, hs, sf, wire, back>>

ToBuffer(f) ==
    /\ ret' = [op |-> "toBuffer", this |-> f, value |-> toBuffer(flt[f])]
    /\ UNCHANGED <<flt, added, members, hs, sf, wire, back>>

Next ==
    \E f \in Filters :
        \/ \E v \in Items : Add(f, v)
        \/ \E v \in Items : Test(f, v)
        \/ \E g \in Filters : Compare(f, g)
        \/ \E g \in Filters : Union(f, g)
        \/ Size(f)
        \/ ToBuffer(f)

Spec == Init /\ [][Next]_vars

---------------------------------------------------------------------------
(* Properties of add, test, union and compare (specification Spec).        *)

SameParameters(f, g) == flt[f].bits = flt[g].bits /\ flt[f].k = flt[g].k

\* C1: no false negatives.  In every state, test(x) is true on a filter for
\* every item x that was passed to its add, whatever adds and unions happened
\* before or after; and a test call on such an item returned true.
NoFalseNegatives ==
    /\ \A f \in Filters : \A x \in added[f] : test(flt[f], x)
    /\ (ret.op = "test" /\ ret.arg \in added[ret.this]) => ret.value = TRUE

\* A test of an added item returned true on a filter that has also received
\* another item by add and further items by a union.
NoFalseNegativesWitness ==
    /\ ret.op = "test" /\ ret.value = TRUE
    /\ ret.arg \in added[ret.this]
    /\ added[ret.this] # {ret.arg}
    /\ members[ret.this] # added[ret.this]

\* A fresh filter with the parameters of this, with every item of S added.
RECURSIVE AddAll(_, _)
AddAll(this, S) ==
    IF S = {} THEN this
    ELSE LET x == CHOOSE x \in S : TRUE IN AddAll(add(this, x), S \ {x})

\* C2: union correctness.  The state of every filter equals the state of a
\* fresh filter with the same (bits, k) into which every item it received, by
\* add or from the filters united into it, was added; so test is true on all
\* these items.
UnionCorrect ==
    \A f \in Filters :
        /\ flt[f] = AddAll(BloomFilter(flt[f].bits, flt[f].k), members[f])
        /\ \A x \in members[f] : test(flt[f], x)

\* A union succeeded on a filter with items of its own and brought it items
\* it had not been given by add.
UnionCorrectWitness ==
    /\ ret.op = "union" /\ ret.threw = FALSE /\ ret.this # ret.arg
    /\ added[ret.this] # {}
    /\ members[ret.arg] \ added[ret.this] # {}
    /\ members[ret.arg] \subseteq members[ret.this]

\* C3: union throws exactly when bits or k differ, a union that throws leaves
\* every filter as it was.
UnionRejectsMismatch ==
    [][ret'.op = "union" =>
          /\ ret'.threw = ~SameParameters(ret'.this, ret'.arg)
          /\ ret'.threw => flt' = flt]_vars

\* A union of two non-empty filters with different parameters threw.
UnionRejectsMismatchWitness ==
    /\ ret.op = "union" /\ ret.threw = TRUE
    /\ flt[ret.this].filter # {} /\ flt[ret.arg].filter # {}

Superset(f, g) ==
    /\ SameParameters(f, g)
    /\ members[g] \subseteq members[f] /\ members[g] # members[f]

\* C5 as stated: a filter that received a strict superset of the items of
\* another compares Larger or Inequal to it.
SupersetLargerOrInequal ==
    (ret.op = "compare" /\ Superset(ret.this, ret.arg))
        => ret.value \in {Larger, Inequal}

\* C5, amended: a filter that received a strict superset of the items of
\* another (same parameters) compares Larger to it, or Equal when the
\* additional items set no bit that was not set already; never Smaller and
\* never Inequal.
SupersetLargerOrEqual ==
    (ret.op = "compare" /\ Superset(ret.this, ret.arg))
        => /\ ret.value \in {Larger, Equal}
           /\ ret.value = Equal <=> flt[ret.this].filter = flt[ret.arg].filter

\* A non-empty filter was compared to one holding its items and more, and
\* Larger was returned.
SupersetWitness ==
    /\ ret.op = "compare" /\ Superset(ret.this, ret.arg)
    /\ members[ret.arg] # {}
    /\ ret.value = Larger

\* The result the classification of C6 gives for two filters.
Classify(this, bloom) ==
    IF this.bits # bloom.bits \/ this.k # bloom.k THEN Incompatible
    ELSE IF \A i \in 0..(this.bits - 1) : (i \in this.filter) = (i \in bloom.filter)
         THEN Equal
    ELSE IF Cardinality(this.filter) > Cardinality(bloom.filter) THEN Larger
    ELSE IF Cardinality(this.filter) < Cardinality(bloom.filter) THEN Smaller
    ELSE Inequal

\* C6: compare returns Incompatible iff bits or k differ, otherwise Equal iff
\* the bit-vectors are identical, otherwise Larger, Smaller or Inequal as the
\* number of 1 bits of this filter is greater than, less than or equal to the
\* other's; it never returns None and changes no filter.
CompareClassifies ==
    [][ret'.op = "compare" =>
          /\ ret'.value = Classify(flt[ret'.this], flt[ret'.arg])
          /\ ret'.value # None
          /\ flt' = flt]_vars

\* A compare of two different filters with as many 1 bits returned Inequal.
CompareClassifiesWitness ==
    /\ ret.op = "compare" /\ ret.value = Inequal
    /\ flt[ret.this].filter # {}

ReadOnly == {"test", "compare", "size", "toBuffer"}

\* C10: the state of every filter starts all-zero and only grows: each step
\* keeps every bit that was set, and bits and k; test, compare, size, toBuffer
\* and a union that throws change no filter, and a union leaves its argument
\* as it was.
StateOnlyGrows ==
    /\ \A f \in Filters : flt[f].filter = {}
    /\ [][/\ \A f \in Filters :
                /\ flt[f].filter \subseteq flt'[f].filter
                /\ flt'[f].bits = flt[f].bits /\ flt'[f].k = flt[f].k
          /\ ret'.op \in ReadOnly => flt' = flt
          /\ ret'.op = "union" =>
                /\ ret'.threw => flt' = flt
                /\ ret'.arg # ret'.this => flt'[ret'.arg] = flt[ret'.arg]]_vars

\* An add on a filter that already held the item's bits and others.
StateOnlyGrowsWitness ==
    /\ ret.op = "add"
    /\ Cardinality(flt[ret.this].filter) > flt[ret.this].k
    /\ \E f \in Filters : f # ret.this /\ flt[f].filter # {}

---------------------------------------------------------------------------
(* One itemHash call, iteration by iteration (specification SpecHash).     *)

\* The values of bits the traced calls are made with.
HashWidths == {1, 7, 8, 12, 64}

InitHash ==
    /\ hs \in {[pc |-> "loop", v |-> v, st |-> HashEntry(XXH64(v), bits, k)] :
                  v \in DOMAIN HashTable, bits \in HashWidths, k \in 1..MaxHashK}
    /\ flt = Idle /\ added = Idle /\ members = Idle /\ ret = Idle
    /\ sf = Idle /\ wire = Idle /\ back = Idle

\* for (let i = 0n; i < _k; ++i) { ... }
HashIterate ==
    /\ hs.pc = "loop" /\ hs.st.i < hs.st.k
    /\ hs' = [hs EXCEPT !.st = HashStep(hs.st)]
    /\ UNCHANGED <<flt, added, members, ret, sf, wire, back>>

\* return o
HashReturn ==
    /\ hs.pc = "loop" /\ ~(hs.st.i < hs.st.k)
    /\ hs' = [pc |-> "return", v |-> hs.v, st |-> hs.st, value |-> hs.st.o]
    /\ UNCHANGED <<flt, added, members, ret, sf, wire, back>>

NextHash == HashIterate \/ HashReturn

SpecHash == InitHash /\ [][NextHash]_vars

\* The double-hashing sequence in true 64-bit arithmetic.
RotateLeft64(a, n) == BigOr(BigAnd(Shl(a, n), mask64), Shr(BigAnd(a, mask64), 64 - n))

RefEntry(h) ==
    LET a == BigXor(h.mag, XorConstant)
    IN  [a |-> a, delta |-> BigOr(RotateLeft64(a, 17), {0}), indices |-> {}]

\* The reference after n iterations: a, delta and the indices recorded.
RECURSIVE RefRun(_, _, _)
RefRun(h, bits, n) ==
    IF n = 0 THEN RefEntry(h)
    ELSE LET r == RefRun(h, bits, n - 1)
             delta == BigAnd(BigAdd(r.delta, BigInt(n - 1)), mask64)
         IN  [a |-> BigAnd(BigAdd(r.a, delta), mask64),
              delta |-> delta,
              indices |-> r.indices \cup {BigMod(r.a, bits)}]

\* C9: after every iteration of itemHash, a equals the a of the double-hashing
\* sequence computed in true 64-bit arithmetic, delta equals its delta modulo
\* 2^64 and o is the mask of the indices recorded so far; the mask returned
\* is that of the k indices, all below bits, with between 1 and k bits set.
HashMatchesReference ==
    LET r == RefRun(XXH64(hs.v), hs.st.m, hs.st.i)
    IN  /\ hs.st.a = r.a
        /\ BigAnd(hs.st.delta, mask64) = r.delta
        /\ hs.st.o = r.indices
        /\ hs.pc = "return" =>
              /\ hs.st.i = hs.st.k
              /\ hs.value = r.indices
              /\ hs.value \subseteq 0..(hs.st.m - 1)
              /\ Cardinality(hs.value) \in 1..hs.st.k

\* A call with k >= 2 returned after its delta had grown beyond 64 bits.
HashMatchesReferenceWitness ==
    /\ hs.pc = "return" /\ hs.st.k >= 2
    /\ \E i \in hs.st.delta : i >= 64
    /\ hs.st.m > 1

---------------------------------------------------------------------------
(* Three filters with the same parameters (specification SpecAlg).         *)

Triple == {"A", "B", "C"}

InitAlg ==
    /\ \E b \in Widths, k \in 1..MaxK : flt = [f \in Triple |-> BloomFilter(b, k)]
    /\ added = Idle /\ members = Idle /\ ret = Idle
    /\ hs = Idle /\ sf = Idle /\ wire = Idle /\ back = Idle

AlgAdd(f, v) ==
    /\ flt' = [flt EXCEPT ![f] = add(flt[f], v)]
    /\ UNCHANGED <<added, members, ret, hs, sf, wire, back>>

AlgUnion(f, g) ==
    /\ flt' = [flt EXCEPT ![f] = union(flt[f], flt[g]).this]
    /\ UNCHANGED <<added, members, ret, hs, sf, wire, back>>

NextAlg ==
    \E f \in Triple :
        \/ \E v \in Items : AlgAdd(f, v)
        \/ \E g \in Triple : AlgUnion(f, g)

SpecAlg == InitAlg /\ [][NextAlg]_vars

\* C7: union is commutative and associative on the bit-vectors.  For any
\* three filters with the same (bits, k): the state of a after a.union(b) is
\* the state of b after b.union(a), and the state after (a.union(b)).union(c)
\* is the state after a.union(b.union(c)); none of these unions throws.
UnionCommutesAssociates ==
    \A a \in Triple, b \in Triple, c \in Triple :
        LET ab == union(flt[a], flt[b])
            ba == union(flt[b], flt[a])
            bc == union(flt[b], flt[c])
        IN  /\ ~ab.threw /\ ~ba.threw /\ ~bc.threw
            /\ ab.this.filter = ba.this.filter
            /\ union(ab.this, flt[c]).this.filter = union(flt[a], bc.this).this.filter

\* The three filters hold bit-vectors none of which contains another.
UnionCommutesAssociatesWitness ==
    \A a \in Triple, b \in Triple :
        a # b => ~(flt[a].filter \subseteq flt[b].filter)

---------------------------------------------------------------------------
(* Serialization (specification SpecSer).                                  *)

\* The hash counts of the filters that are serialized.
SerKs == {1, 2, 255, 256, 65535, 65536}

\* Buffers the caller hands to fromBuffer that toBuffer did not produce.
ForeignBuffers == { <<>>, <<3>>, <<2, 0>>, <<255, 255, 129>>, <<0, 1, 1, 128>> }

InitSer ==
    /\ sf \in {BloomFilter(b, k) : b \in SerWidths, k \in SerKs}
    /\ wire = Idle /\ back = Idle
    /\ flt = Idle /\ added = Idle /\ members = Idle /\ ret = Idle /\ hs = Idle

\* sf.add(v); the model runs the loop of itemHash for k up to MaxK only.  On
\* a filter of width 0 the a % m of itemHash throws and nothing changes.
SerAdd(v) ==
    /\ sf.k <= MaxK
    /\ sf.bits > 0
    /\ sf' = add(sf, v)
    /\ UNCHANGED <<flt, added, members, ret, hs, wire, back>>

\* wire = sf.toBuffer()
SerToBuffer ==
    /\ wire' = [src |-> "toBuffer", bytes |-> toBuffer(sf), of |-> sf]
    /\ UNCHANGED <<flt, added, members, ret, hs, sf, back>>

\* A buffer from elsewhere.
SerReceive(b) ==
    /\ wire' = [src |-> "input", bytes |-> b, of |-> Idle]
    /\ UNCHANGED <<flt, added, members, ret, hs, sf, back>>

\* back = BloomFilter.fromBuffer(wire); the code has no throw on this path.
SerFromBuffer ==
    /\ wire # Idle
    /\ back' = [threw |-> FALSE, filter |-> fromBuffer(wire.bytes), from |-> wire]
    /\ UNCHANGED <<flt, added, members, ret, hs, sf, wire>>

\* The caller goes on with the filter read from a buffer of two bytes or more.
SerAdopt ==
    /\ back # Idle /\ Len(back.from.bytes) >= 2
    /\ sf' = back.filter
    /\ UNCHANGED <<flt, added, members, ret, hs, wire, back>>

NextSer ==
    \/ \E v \in Items : SerAdd(v)
    \/ SerToBuffer
    \/ \E b \in ForeignBuffers : SerReceive(b)
    \/ SerFromBuffer
    \/ SerAdopt

SpecSer == InitSer /\ [][NextSer]_vars

\* Byte j (from 0) of the little-endian layout of x.
ByteOf(x, j) == HexDigit(x, 2*j) + 16 * HexDigit(x, 2*j + 1)

\* The buffer is the wire format of F: k as 16 bits little-endian, then the
\* state little-endian, 2 + bits/8 bytes.
IsWireFormatOf(bytes, F) ==
    /\ Len(bytes) = 2 + F.bits \div 8
    /\ bytes[1] = F.k % 256 /\ bytes[2] = F.k \div 256
    /\ \A j \in 1..(F.bits \div 8) : bytes[2 + j] = ByteOf(F.filter, j - 1)

\* The filter read back is the filter that was written.
ReadBackIs(F) ==
    /\ back.filter.k = F.k /\ back.filter.bits = F.bits
    /\ back.filter.filter = F.filter

\* C4 as stated: the round trip is exact for every filter with a positive k
\* and bits a positive multiple of 8.
RoundTripAnyK ==
    (back # Idle /\ back.from.src = "toBuffer"
        /\ back.from.of.bits % 8 = 0 /\ back.from.of.bits > 0
        /\ back.from.of.k >= 1)
    => ReadBackIs(back.from.of)

\* C4, amended: for every filter F with k in 1..65535 and bits a positive
\* multiple of 8, toBuffer yields the 2 + bits/8 bytes of the wire format and
\* leaves F unchanged, and fromBuffer of these bytes is a filter with the k,
\* the bits and the bit-vector of F.
RoundTrip ==
    /\ [](\A w \in {wire} \cup (IF back = Idle THEN {} ELSE {back.from}) :
            (w # Idle /\ w.src = "toBuffer"
                /\ w.of.bits % 8 = 0 /\ w.of.bits > 0 /\ w.of.k \in 1..65535)
            => /\ IsWireFormatOf(w.bytes, w.of)
               /\ (back # Idle /\ back.from = w) => ReadBackIs(w.of))
    /\ [][(wire' # wire /\ wire'.src = "toBuffer") => (sf' = sf /\ wire'.of = sf)]_vars

\* A filter with k = 65535 and a non-zero state was written and read back.
RoundTripWitness ==
    /\ back # Idle /\ back.from.src = "toBuffer"
    /\ back.from.of.k = 65535 /\ back.from.of.bits % 8 = 0
    /\ back.from.of.filter # {}
    /\ back.filter = back.from.of

\* C8: fromBuffer of a buffer of fewer than two bytes throws and yields no
\* filter.
ShortBufferRejected ==
    (back # Idle /\ Len(back.from.bytes) < 2) => back.threw = TRUE

===========================================================================
